---- MODULE Spec2Model ----
(***************************************************************************)
(* A model of h2o-py/h2o/group_by.py: the GroupBy request builder.         *)
(*                                                                         *)
(* A GroupBy object holds the frame (_fr), the grouping columns (_by), an  *)
(* insertion-ordered dictionary of aggregations (_aggs) keyed by           *)
(* "<op>_<column name>", and the cached result (_res).  The aggregation    *)
(* methods add to _aggs through _add_agg; get_frame() builds the "GB"      *)
(* expression once and caches it.                                          *)
(*                                                                         *)
(* Python values are records [kind, s, i, l]: kind is the Python type,     *)
(* s the text of a str, i the value of an int, l the elements of a list    *)
(* or tuple.  Python indices are 0-based; TLA+ sequences are 1-based.      *)
(***************************************************************************)
EXTENDS Integers, Sequences, FiniteSets, TLC

\* ------------------------------------------------------------- bounds
\* The number of aggregation calls made on one object.
MaxCalls == 2
\* The longest list or tuple passed as col.
MaxLen == 2

\* ------------------------------------------------------ Python values
PyNone == [kind |-> "none", s |-> "", i |-> 0, l |-> <<>>]
PyStr(x) == [kind |-> "str", s |-> x, i |-> 0, l |-> <<>>]
PyInt(n) == [kind |-> "int", s |-> "", i |-> n, l |-> <<>>]
PyFloat == [kind |-> "float", s |-> "", i |-> 0, l |-> <<>>]
PyList(q) == [kind |-> "list", s |-> "", i |-> 0, l |-> q]
PyTuple(q) == [kind |-> "tuple", s |-> "", i |-> 0, l |-> q]

\* is_type(v, str), is_type(v, int), is_type(v, list, tuple)
IsStr(v) == v.kind = "str"
IsInt(v) == v.kind = "int"
IsListOrTuple(v) == v.kind \in {"list", "tuple"}

\* ----------------------------------------------------------- the frame
\* self._fr.names: the column names of the frame the object is built on.
Names == <<"a", "b", "c">>
\* self._fr.ncol
ncol == Len(Names)

\* list.index(x): the first 0-based position of x, scanning from k;
\* -1 stands for the ValueError Python raises when x is absent.
RECURSIVE IndexFrom(_, _, _)
IndexFrom(names, x, k) ==
  IF k >= Len(names) THEN -1
  ELSE IF names[k + 1] = x THEN k
  ELSE IndexFrom(names, x, k + 1)

index(names, x) == IndexFrom(names, x, 0)

\* Whether names[cidx] raises IndexError.
OutOfRange(names, cidx) == cidx >= Len(names) \/ cidx < 0 - Len(names)

\* names[cidx], Python subscripting: a negative cidx counts from the end.
PyGet(names, cidx) ==
  IF cidx >= 0 THEN names[cidx + 1] ELSE names[Len(names) + cidx + 1]

\* x in lst, Python membership by equality.
PyIn(x, lst) == \E k \in 1..Len(lst) : lst[k] = x

\* --------------------------------------------------------- __init__
\* Whether the constructor raises: names.index(b) raises ValueError for a
\* name that is not a column of the frame.
InitRaises(b) ==
  \/ IsStr(b) /\ index(Names, b.s) < 0
  \/ IsListOrTuple(b) /\ \E k \in 1..Len(b.l) : IsStr(b.l[k]) /\ index(Names, b.l[k].s) < 0

\* __init__ with the list branch keeping the names it is given.
GroupByInit_NamesKept(b) ==
  IF IsStr(b) THEN PyList(<<PyInt(index(Names, b.s))>>)
  ELSE IF IsListOrTuple(b) THEN PyList(b.l)
  ELSE PyList(<<b>>)

\* The value __init__ stores in self._by for the argument by.
GroupByInit(b) ==
  IF IsStr(b) THEN PyList(<<PyInt(index(Names, b.s))>>)
  ELSE IF IsListOrTuple(b)
    THEN PyList([k \in 1..Len(b.l) |->
                 IF IsStr(b.l[k]) THEN PyInt(index(Names, b.l[k].s)) ELSE b.l[k]])
  ELSE PyList(<<b>>)

\* ------------------------------------------------------ the _aggs dict
\* A Python dict in insertion order: a sequence of [key, val] entries.
\* d[key] = val overwrites in place when key is present, else appends.
HasKey(d, key) == \E k \in 1..Len(d) : d[k].key = key

\* A dict that keeps every assignment: a list appended to.
DictSet_Append(d, key, val) == Append(d, [key |-> key, val |-> val])

DictSet(d, key, val) ==
  IF HasKey(d, key)
    THEN [k \in 1..Len(d) |-> IF d[k].key = key THEN [key |-> key, val |-> val] ELSE d[k]]
  ELSE Append(d, [key |-> key, val |-> val])

\* "{}_{}".format(op, self._fr.names[cidx])
AggName(op, cidx) == op \o "_" \o PyGet(Names, cidx)

\* range(self._fr.ncol) filtered by `i not in self._by`.
NonByCols(b) ==
  SelectSeq([k \in 1..ncol |-> PyInt(k - 1)], LAMBDA v : ~PyIn(v, b.l))

\* Lines 248-250: record the aggregation under its name and return self.
\* names[cidx] raises IndexError for an index outside the frame.
StoreAgg(d, op, cidx, na) ==
  IF OutOfRange(Names, cidx) THEN [aggs |-> d, ret |-> "IndexError"]
  ELSE [aggs |-> DictSet(d, AggName(op, cidx), [op |-> op, cidx |-> cidx, na |-> na]),
        ret |-> "self"]

\* _add_agg(op, col, na) on an object whose _aggs is d and _by is b: the
\* _aggs it leaves and what it returns ("self") or raises.  AddEach is the
\* body of its two for loops: the recursive calls in order, left by the
\* first one that raises, with what was added before it kept.
RECURSIVE add_agg(_, _, _, _, _), AddEach(_, _, _, _, _)
AddEach(d, b, op, cols, na) ==
  IF cols = <<>> THEN [aggs |-> d, ret |-> "self"]
  ELSE LET r == add_agg(d, b, op, Head(cols), na)
       IN IF r.ret # "self" THEN r ELSE AddEach(r.aggs, b, op, Tail(cols), na)

\* _add_agg whose loop over a list or tuple ends without `return self`.
add_agg_NoReturn(d, b, op, col, na) ==
  LET c == IF op = "nrow" THEN PyInt(0) ELSE col
  IN IF c.kind = "none" THEN AddEach(d, b, op, NonByCols(b), na)
     ELSE IF IsStr(c)
       THEN LET cidx == index(Names, c.s)
            IN IF cidx < 0 THEN [aggs |-> d, ret |-> "ValueError"]
               ELSE StoreAgg(d, op, cidx, na)
     ELSE IF IsInt(c) THEN StoreAgg(d, op, c.i, na)
     ELSE IF IsListOrTuple(c)
       THEN LET r == AddEach(d, b, op, c.l, na)
            IN IF r.ret = "self" THEN [aggs |-> r.aggs, ret |-> "None"] ELSE r
     ELSE [aggs |-> d, ret |-> "ValueError"]

\* _add_agg whose name branch records the 1-based position of the name.
add_agg_NameOffByOne(d, b, op, col, na) ==
  LET c == IF op = "nrow" THEN PyInt(0) ELSE col
  IN IF c.kind = "none" THEN AddEach(d, b, op, NonByCols(b), na)
     ELSE IF IsStr(c)
       THEN LET cidx == index(Names, c.s)
            IN IF cidx < 0 THEN [aggs |-> d, ret |-> "ValueError"]
               ELSE StoreAgg(d, op, cidx + 1, na)
     ELSE IF IsInt(c) THEN StoreAgg(d, op, c.i, na)
     ELSE IF IsListOrTuple(c) THEN AddEach(d, b, op, c.l, na)
     ELSE [aggs |-> d, ret |-> "ValueError"]

add_agg(d, b, op, col, na) ==
  LET c == IF op = "nrow" THEN PyInt(0) ELSE col
  IN IF c.kind = "none" THEN AddEach(d, b, op, NonByCols(b), na)
     ELSE IF IsStr(c)
       THEN LET cidx == index(Names, c.s)
            IN IF cidx < 0 THEN [aggs |-> d, ret |-> "ValueError"]
               ELSE StoreAgg(d, op, cidx, na)
     ELSE IF IsInt(c) THEN StoreAgg(d, op, c.i, na)
     ELSE IF IsListOrTuple(c) THEN AddEach(d, b, op, c.l, na)
     ELSE [aggs |-> d, ret |-> "ValueError"]

\* -------------------------------------------------------- get_frame
\* aggs = []; for k in self._aggs: aggs += self._aggs[k]
RECURSIVE Flatten(_)
\* The loop extending the argument list by the operation and column only.
Flatten_NoNa(d) ==
  IF d = <<>> THEN <<>>
  ELSE <<PyStr(d[1].val.op), PyInt(d[1].val.cidx)>> \o Flatten(Tail(d))

Flatten(d) ==
  IF d = <<>> THEN <<>>
  ELSE <<PyStr(d[1].val.op), PyInt(d[1].val.cidx), PyStr(d[1].val.na)>> \o Flatten(Tail(d))

\* ExprNode("GB", self._fr, self._by, *aggs)
ExprNode(b, d) == [fn |-> "GB", fr |-> "fr", by |-> b, args |-> Flatten(d)]

\* get_frame() without the `if self._res is None` test.
get_frame_Rebuild(r, b, d) == <<ExprNode(b, d)>>

\* get_frame(): self._res afterwards, which is also what it returns.
\* r is <<>> for None and <<e>> for the frame of expression e.
get_frame(r, b, d) == IF r = <<>> THEN <<ExprNode(b, d)>> ELSE r

\* ------------------------------------------------------------ inputs
\* The na argument: how the aggregation treats NA entries.
NAs == {"all", "rm"}

\* SeqsUpTo(S, n): the sequences over S of length at most n.
SeqsUpTo(S, n) == UNION {[1..m -> S] : m \in 0..n}

\* The by arguments of the call sequences: a name, and a list of an index
\* and a name.
SmallBys == {PyStr("b"), PyList(<<PyInt(0), PyStr("c")>>)}

\* The col arguments of the call sequences: None (every column but the
\* grouping ones), and a list naming one column twice, by index and by name.
SmallCols == {PyNone, PyList(<<PyInt(0), PyStr("a")>>)}

\* The by arguments of the single calls: SmallBys, an index, a tuple, the
\* empty list, a list of two names, and a name that is no column (__init__
\* raises).
WideBys ==
  SmallBys \cup {PyInt(1), PyTuple(<<PyStr("a"), PyInt(2)>>), PyList(<<>>),
                 PyList(<<PyStr("c"), PyStr("a")>>), PyStr("zz")}

\* The col arguments of the single calls: None, names (one of them no
\* column), indices (one negative, one past the last column), a float, and
\* the lists and tuples of at most MaxLen elements, nested ones included.
ColAtoms ==
  {PyNone, PyStr("a"), PyStr("c"), PyStr("zz"),
   PyInt(0), PyInt(2), PyInt(3), PyInt(0 - 1), PyFloat}

ColElems ==
  {PyNone, PyStr("b"), PyStr("zz"), PyInt(0), PyList(<<PyInt(2), PyStr("b")>>)}

WideCols ==
  ColAtoms \cup {PyList(q) : q \in SeqsUpTo(ColElems, MaxLen)}
           \cup {PyTuple(q) : q \in SeqsUpTo({PyStr("a"), PyInt(1)}, MaxLen)}

\* ------------------------------------------------------------- state
VARIABLES
  wide,         \* which inputs this run draws: single wide calls, or sequences
  byArg,        \* the by argument the object was constructed with
  by,           \* self._by
  aggs,         \* self._aggs
  res,          \* self._res: <<>> for None, <<e>> for the frame of expression e
  ret,          \* what the last call returned or raised
  ncalls,       \* the number of aggregation calls made
  last,         \* the last aggregation call: method, op, col, na, the _aggs before it
  firstFrame,   \* what the first get_frame() returned (<<>> before it)
  aggsAtFirst,  \* self._aggs at the first get_frame()
  specified,    \* the columns specified by the calls so far, call by call
  specKeys,     \* the (op, column name) pairs those calls specified
  countAtFirst, \* specified at the first get_frame()
  keysAtFirst,  \* specKeys at the first get_frame()
  anyRaised     \* whether some aggregation call raised

vars ==
  <<wide, byArg, by, aggs, res, ret, ncalls, last, firstFrame, aggsAtFirst,
    specified, specKeys, countAtFirst, keysAtFirst, anyRaised>>

\* The number of columns a col argument specifies: one per name or index,
\* the columns that are not grouped on for None, one for count().
RECURSIVE NumSpecified(_, _, _)
NumSpecified(op, col, b) ==
  IF op = "nrow" THEN 1
  ELSE IF col.kind = "none" THEN Len(NonByCols(b))
  ELSE IF IsListOrTuple(col)
    THEN IF col.l = <<>> THEN 0
         ELSE NumSpecified(op, Head(col.l), b)
              + NumSpecified(op, [col EXCEPT !.l = Tail(col.l)], b)
  ELSE 1

\* The (op, column name) pairs a col argument that raises nothing specifies.
RECURSIVE KeysSpecified(_, _, _)
KeysSpecified(op, col, b) ==
  IF op = "nrow" THEN {<<op, Names[1]>>}
  ELSE IF col.kind = "none"
    THEN {<<op, Names[k]>> : k \in {j \in 1..ncol : ~PyIn(PyInt(j - 1), b.l)}}
  ELSE IF IsListOrTuple(col)
    THEN UNION {KeysSpecified(op, col.l[k], b) : k \in 1..Len(col.l)}
  ELSE IF IsStr(col) THEN {<<op, col.s>>}
  ELSE {<<op, PyGet(Names, col.i)>>}

NoCall == [method |-> "new", op |-> "", col |-> PyNone, na |-> "", pre |-> <<>>]

Start(w, b) ==
  /\ ~InitRaises(b)
  /\ wide = w
  /\ byArg = b
  /\ by = GroupByInit(b)
  /\ aggs = <<>>
  /\ res = <<>>
  /\ ret = [kind |-> "new", frame |-> <<>>]
  /\ ncalls = 0
  /\ last = NoCall
  /\ firstFrame = <<>>
  /\ aggsAtFirst = <<>>
  /\ specified = 0
  /\ specKeys = {}
  /\ countAtFirst = 0
  /\ keysAtFirst = {}
  /\ anyRaised = FALSE

\* GroupBy(fr, by), for the call sequences.
Init == \E b \in SmallBys : Start(FALSE, b)

\* GroupBy(fr, by), for the single calls.
InitWide == \E b \in WideBys : Start(TRUE, b)

\* ------------------------------------------------------------ actions
\* One aggregation method called with (col, na): self._add_agg(op, col, na).
Agg(method, op, col, na) ==
  /\ ncalls < (IF wide THEN 1 ELSE MaxCalls)
  /\ LET r == add_agg(aggs, by, op, col, na)
     IN /\ aggs' = r.aggs
        /\ ret' = [kind |-> r.ret, frame |-> <<>>]
        /\ anyRaised' = (anyRaised \/ r.ret # "self")
        /\ specified' = IF r.ret = "self" THEN specified + NumSpecified(op, col, by)
                        ELSE specified
        /\ specKeys' = IF r.ret = "self" THEN specKeys \cup KeysSpecified(op, col, by)
                       ELSE specKeys
  /\ ncalls' = ncalls + 1
  /\ last' = [method |-> method, op |-> op, col |-> col, na |-> na, pre |-> aggs]
  /\ UNCHANGED <<wide, byArg, by, res, firstFrame, aggsAtFirst, countAtFirst, keysAtFirst>>

Cols == IF wide THEN WideCols ELSE SmallCols

Min == \E col \in Cols, na \in NAs : Agg("min", "min", col, na)
Max == \E col \in Cols, na \in NAs : Agg("max", "max", col, na)
Mean == \E col \in Cols, na \in NAs : Agg("mean", "mean", col, na)
\* count(na) passes None for col.
Count == \E col \in Cols \cap {PyNone}, na \in NAs : Agg("count", "nrow", col, na)
Sum == \E col \in Cols, na \in NAs : Agg("sum", "sum", col, na)
Sd == \E col \in Cols, na \in NAs : Agg("sd", "sdev", col, na)
Var == \E col \in Cols, na \in NAs : Agg("var", "var", col, na)
Ss == \E col \in Cols, na \in NAs : Agg("ss", "sumSquares", col, na)
Mode == \E col \in Cols, na \in NAs : Agg("mode", "mode", col, na)

\* A call that leaves r in self._res and returns it.
Fetch(r) ==
  /\ res' = r
  /\ ret' = [kind |-> "frame", frame |-> res']
  /\ IF firstFrame = <<>>
       THEN /\ firstFrame' = res'
            /\ aggsAtFirst' = aggs
            /\ countAtFirst' = specified
            /\ keysAtFirst' = specKeys
       ELSE UNCHANGED <<firstFrame, aggsAtFirst, countAtFirst, keysAtFirst>>
  /\ UNCHANGED <<wide, byArg, by, aggs, ncalls, last, specified, specKeys, anyRaised>>

\* get_frame()
GetFrame == \E r \in {get_frame(res, by, aggs)} : Fetch(r)

\* The frame property: return self.get_frame()
Frame == \E r \in {get_frame(res, by, aggs)} : Fetch(r)

Next ==
  \/ Min \/ Max \/ Mean \/ Count \/ Sum \/ Sd \/ Var \/ Ss \/ Mode
  \/ GetFrame \/ Frame

\* Sequences of at most MaxCalls aggregation calls and any get_frame() calls.
Spec == Init /\ [][Next]_vars

\* One aggregation call, over the wide inputs, and any get_frame() calls.
SpecWide == InitWide /\ [][Next]_vars

\* ------------------------------------------------------------ claims
\* Some aggregation method has been called.
Called == last.method # "new"

\* The last call made was an aggregation call (no get_frame() since).
AfterAgg == Called /\ ret.kind # "frame"

\* The 0-based position of the column named n (the names are distinct).
PosOf(n) == CHOOSE i \in 0..(ncol - 1) : Names[i + 1] = n

IsColumn(n) == \E k \in 1..ncol : Names[k] = n

\* C1: once get_frame() (or frame) has been called, aggregation calls have
\* no effect on the result: self._res stays what the first call returned,
\* every later get_frame() returns it, and it is the "GB" expression of the
\* aggregations accumulated before the first call.
C1_ResultFixedByFirstGetFrame ==
  firstFrame # <<>> =>
    /\ res = firstFrame
    /\ (ret.kind = "frame" => ret.frame = firstFrame)
    /\ firstFrame = <<ExprNode(by, aggsAtFirst)>>

\* An aggregation before the first get_frame(), another one after it
\* that changed _aggs, and then a get_frame().
C1_Witness ==
  /\ firstFrame # <<>>
  /\ aggsAtFirst # <<>>
  /\ aggs # aggsAtFirst
  /\ ret.kind = "frame"

\* A col argument of an accepted form: None, the name of a column, an index
\* of a column, or a list or tuple (nested, empty) of accepted forms.
RECURSIVE Accepted(_)
Accepted(col) ==
  \/ col.kind = "none"
  \/ IsStr(col) /\ IsColumn(col.s)
  \/ IsInt(col) /\ col.i \in (0 - ncol)..(ncol - 1)
  \/ IsListOrTuple(col) /\ \A k \in 1..Len(col.l) : Accepted(col.l[k])

\* C2: an aggregation method either raises or returns self, and for every
\* accepted form of col (and for count) it returns self.
C2_AggregationReturnsSelf ==
  AfterAgg =>
    /\ ret.kind \in {"self", "ValueError", "IndexError"}
    /\ (last.method = "count" \/ Accepted(last.col) => ret.kind = "self")

\* A call with a list holding a nested list has returned self.
C2_Witness ==
  /\ AfterAgg
  /\ ret.kind = "self"
  /\ last.col.kind = "list"
  /\ \E k \in 1..Len(last.col.l) : IsListOrTuple(last.col.l[k])
  /\ Len(aggs) >= 2

\* The items of the by argument, and the columns (0-based) it names, by
\* name or by index.
ByItems == IF IsListOrTuple(byArg) THEN {byArg.l[k] : k \in 1..Len(byArg.l)} ELSE {byArg}

GroupingCols ==
  {i \in 0..(ncol - 1) : PyStr(Names[i + 1]) \in ByItems \/ PyInt(i) \in ByItems}

\* The entries of the dict d for the operation op on column index i.
EntriesFor(d, op, i) == {d[k] : k \in {j \in 1..Len(d) : d[j].val.op = op /\ d[j].val.cidx = i}}

Triple(args, j) == <<args[3 * j - 2], args[3 * j - 1], args[3 * j]>>

\* The expression e is "GB" of the frame, the grouping columns and the
\* flattened triples of exactly the entries of the dict d, each once.
SerializesExactly(e, d) ==
  /\ e.fn = "GB"
  /\ e.fr = "fr"
  /\ e.by = by
  /\ Len(e.args) = 3 * Len(d)
  /\ \A k \in 1..Len(d) :
       Cardinality({j \in 1..Len(d) :
                      Triple(e.args, j)
                        = <<PyStr(d[k].val.op), PyInt(d[k].val.cidx), PyStr(d[k].val.na)>>}) = 1
  /\ \A j \in 1..Len(d) :
       \E k \in 1..Len(d) :
         Triple(e.args, j)
           = <<PyStr(d[k].val.op), PyInt(d[k].val.cidx), PyStr(d[k].val.na)>>

\* C4, as stated: every get_frame() returns the "GB" expression of the
\* aggregations accumulated so far.
C4_EveryGetFrameSerializesAll ==
  ret.kind = "frame" => SerializesExactly(ret.frame[1], aggs)

\* C4, amended: the first get_frame() builds the "GB" expression of the
\* frame, the grouping columns and the triples of exactly the aggregations
\* accumulated up to it, each once; every get_frame() returns that one.
C4_FirstGetFrameSerializesAll ==
  /\ firstFrame # <<>> => SerializesExactly(firstFrame[1], aggsAtFirst)
  /\ ret.kind = "frame" => SerializesExactly(ret.frame[1], aggsAtFirst)

\* A get_frame() has returned an expression of two aggregations or more.
C4_Witness ==
  /\ ret.kind = "frame"
  /\ Len(aggsAtFirst) >= 2
  /\ Len(ret.frame[1].args) >= 6

AsIndex(v) == IF IsStr(v) THEN PyInt(PosOf(v.s)) ELSE v

ByAsIndices ==
  IF IsListOrTuple(byArg)
    THEN [byArg EXCEPT !.l = [k \in 1..Len(byArg.l) |-> AsIndex(byArg.l[k])]]
  ELSE AsIndex(byArg)

\* C6: names and indices are interchangeable.  _by is a list, it holds no
\* name, and it is what the constructor stores when given the indices of
\* the names; an aggregation of a column given by name leaves _aggs, and
\* returns, as the same call given the index of that name does.
C6_NamesAndIndicesInterchangeable ==
  /\ by.kind = "list"
  /\ \A k \in 1..Len(by.l) : ~IsStr(by.l[k])
  /\ by = GroupByInit(ByAsIndices)
  /\ Called /\ IsStr(last.col) /\ IsColumn(last.col.s) =>
       LET r == add_agg(last.pre, by, last.op, PyInt(PosOf(last.col.s)), last.na)
       IN /\ aggs = r.aggs
          /\ AfterAgg => ret.kind = r.ret
          /\ \E k \in 1..Len(aggs) :
               aggs[k].val = [op |-> last.op, cidx |-> PosOf(last.col.s), na |-> last.na]

\* An aggregation of a column given by name, on an object grouped by a list
\* or tuple that held a name.
C6_Witness ==
  /\ AfterAgg
  /\ IsStr(last.col)
  /\ ret.kind = "self"
  /\ IsListOrTuple(byArg)
  /\ \E k \in 1..Len(byArg.l) : IsStr(byArg.l[k])

====
